---- MODULE Spec2Model ----
(***************************************************************************)
(* Model of src/weather.py: the time-based cache of CachedWeatherProvider  *)
(* and the fetch-and-parse routine of CaiYunWeatherProvider.               *)
(*                                                                         *)
(* Conventions.                                                            *)
(*  - Python's None / a present value is an optional: <<>> / <<v>>.        *)
(*  - A Python str is a sequence of one-character strings, so that         *)
(*    str.lower(), `in` (substring) and == are computed, not assumed.      *)
(*  - A Python dict is a TLA+ function; `k in d` is k \in DOMAIN d.        *)
(*  - A number that the code divides is kept as an exact fraction          *)
(*    [num, den] in lowest terms (floating-point rounding is not modelled).*)
(*  - A call that raises yields [ok |-> FALSE, error |-> name].            *)
(***************************************************************************)
EXTENDS Integers, Sequences, FiniteSets, TLC

VARIABLES
    now,                 \* the wall clock read by pytime.time(), in seconds
    cache_invalidation,  \* CachedWeatherProvider.cache_invalidation (the TTL)
    update_time,         \* CachedWeatherProvider.__update_time (optional)
    cache,               \* CachedWeatherProvider.__cache (optional)
    call,                \* what the last completed call did and returned
    hist                 \* history: the last successful refresh, failures since

vars == <<now, cache_invalidation, update_time, cache, call, hist>>

(***************************************************************************)
(* Bounds of the model.                                                    *)
(***************************************************************************)
MaxTime == 4     \* the clock runs over 0..MaxTime
MaxTTL == 2      \* cache_invalidation is drawn from 0..MaxTTL
MaxDelay == 1    \* longest time between two clock reads inside one call
MaxSteps == 2    \* longest hourly / daily series of a payload

(***************************************************************************)
(* Optionals and results.                                                  *)
(***************************************************************************)
None == <<>>
Some(v) == <<v>>
IsNone(o) == o = <<>>
Get(o) == o[1]

Ok(v) == [ok |-> TRUE, value |-> v]
Raise(e) == [ok |-> FALSE, error |-> e]

(***************************************************************************)
(* Python str as a sequence of characters.                                 *)
(***************************************************************************)
UpperChars == <<"A","B","C","D","E","F","G","H","I","J","K","L","M",
                "N","O","P","Q","R","S","T","U","V","W","X","Y","Z">>
LowerChars == <<"a","b","c","d","e","f","g","h","i","j","k","l","m",
                "n","o","p","q","r","s","t","u","v","w","x","y","z">>

\* str.lower() on one character
LowerChar(c) ==
    IF \E k \in 1..Len(UpperChars) : UpperChars[k] = c
    THEN LowerChars[CHOOSE k \in 1..Len(UpperChars) : UpperChars[k] = c]
    ELSE c

\* str.lower()
Lower(s) == [k \in 1..Len(s) |-> LowerChar(s[k])]

\* `sub in s` for two str
Contains(s, sub) ==
    \E k \in 0..(Len(s) - Len(sub)) : SubSeq(s, k + 1, k + Len(sub)) = sub

\* The literals compared against in __caiyun_get_day
S_clear == <<"c","l","e","a","r">>
S_cloudy == <<"c","l","o","u","d","y">>
S_haze == <<"h","a","z","e">>
S_light_rain == <<"l","i","g","h","t","_","r","a","i","n">>
S_moderate_rain == <<"m","o","d","e","r","a","t","e","_","r","a","i","n">>
S_heavy_rain == <<"h","e","a","v","y","_","r","a","i","n">>
S_storm_rain == <<"s","t","o","r","m","_","r","a","i","n">>
S_fog == <<"f","o","g">>
S_light_snow == <<"l","i","g","h","t","_","s","n","o","w">>
S_moderate_snow == <<"m","o","d","e","r","a","t","e","_","s","n","o","w">>
S_heavy_snow == <<"h","e","a","v","y","_","s","n","o","w">>
S_storm_snow == <<"s","t","o","r","m","_","s","n","o","w">>
S_dust == <<"d","u","s","t">>
S_sand == <<"s","a","n","d">>
S_wind == <<"w","i","n","d">>

\* Raw sky-condition codes drawn as inputs: the provider's documented codes,
\* case variants, near misses, strings naming two categories, and the empty str
RawSkycons ==
    { <<"C","L","E","A","R","_","D","A","Y">>,
      <<"C","L","E","A","R","_","N","I","G","H","T">>,
      <<"P","A","R","T","L","Y","_","C","L","O","U","D","Y","_","D","A","Y">>,
      <<"P","A","R","T","L","Y","_","C","L","O","U","D","Y","_","N","I","G","H","T">>,
      <<"C","L","O","U","D","Y">>,
      <<"L","I","G","H","T","_","H","A","Z","E">>,
      <<"M","O","D","E","R","A","T","E","_","H","A","Z","E">>,
      <<"H","E","A","V","Y","_","H","A","Z","E">>,
      <<"L","I","G","H","T","_","R","A","I","N">>,
      <<"M","O","D","E","R","A","T","E","_","R","A","I","N">>,
      <<"H","E","A","V","Y","_","R","A","I","N">>,
      <<"S","T","O","R","M","_","R","A","I","N">>,
      <<"F","O","G">>,
      <<"L","I","G","H","T","_","S","N","O","W">>,
      <<"M","O","D","E","R","A","T","E","_","S","N","O","W">>,
      <<"H","E","A","V","Y","_","S","N","O","W">>,
      <<"S","T","O","R","M","_","S","N","O","W">>,
      <<"D","U","S","T">>,
      <<"S","A","N","D">>,
      <<"W","I","N","D">>,
      <<"l","i","g","h","t","_","r","a","i","n">>,
      <<"L","i","g","h","t","_","R","a","i","n">>,
      <<"c","l","o","u","d","y">>,
      <<"t","h","u","n","d","e","r","s","n","o","w">>,
      <<>>,
      <<"r","a","i","n">>,
      <<"l","i","g","h","t","_","r","a","i","n","_">>,
      <<"x","f","o","g">>,
      <<"W","I","N","D","Y">>,
      <<"h","a","z","e","_","c","l","e","a","r">>,
      <<"c","l","o","u","d","y","_","h","a","z","e">>,
      <<"c","l","o","u","d","y","_","c","l","e","a","r">>,
      <<"s","a","n","d","s","t","o","r","m">>,
      <<"c","l","e","a">>,
      <<"H","e","a","v","y","_","S","n","o","w">>,
      <<"s","t","o","r","m","_","s","n","o","w">> }

(***************************************************************************)
(* Numbers.  A payload float is a fraction [num, den] in lowest terms.     *)
(***************************************************************************)
RECURSIVE Gcd(_, _)
Gcd(a, b) == IF b = 0 THEN a ELSE Gcd(b, a % b)

Abs(n) == IF n < 0 THEN -n ELSE n

\* the fraction n/d, d > 0, in lowest terms
Frac(n, d) ==
    LET g == Gcd(Abs(n), d)
    IN  [num |-> n \div g, den |-> d \div g]

Num(n) == Frac(n, 1)

\* Python's x / k on a float x, k a positive int
TrueDiv(x, k) == Frac(x.num, x.den * k)

\* Python's int(x) on a float x: truncation toward zero
PyInt(x) ==
    IF x.num >= 0 THEN x.num \div x.den ELSE -((-x.num) \div x.den)

(***************************************************************************)
(* Enumerations and the Weather record (src/weather.py, lines 24-80).      *)
(***************************************************************************)
Day ==
    { "CLEAR", "CLOUDY", "LIGHTLY_RAINY", "RAINY", "HEAVILY_RAINY",
      "SNOWY_RAINY", "LIGHTLY_SNOWY", "SNOWY", "HEAVILY_SNOWY", "HAZY",
      "FOGGY", "DUSTY", "SANDY", "WINDY", "UNKNOWN" }

WeatherEffectiveness == { "CURRENT", "HOURLY", "DAILY", "ANY" }

Weather(time, effect, day, temperature, humidity, pressure, uv_index) ==
    [ time |-> time, effect |-> effect, day |-> day,
      temperature |-> temperature, humidity |-> humidity,
      pressure |-> pressure, uv_index |-> uv_index ]

(***************************************************************************)
(* Time values.  A struct_time is <<day, hour, second>>.  An ISO string is *)
(* [day, hour] when it carries a time of day and [day] when it is a date.  *)
(***************************************************************************)
\* pytime.localtime() at clock value t
localtime(t) == <<0, 0, t>>

\* datetime.datetime.fromisoformat(s).timetuple()
fromisoformat_timetuple(s) ==
    IF "hour" \in DOMAIN s THEN <<s.day, s.hour, 0>> ELSE <<s.day, 0, 0>>

(***************************************************************************)
(* CaiYunWeatherProvider.__caiyun_get_day                                  *)
(***************************************************************************)
\* A plausible slip: the code is compared as received, without lower()
caiyun_get_day_no_lower(raw0) ==
    IF Contains(raw0, S_clear) THEN "CLEAR"
    ELSE IF Contains(raw0, S_cloudy) THEN "CLOUDY"
    ELSE IF Contains(raw0, S_haze) THEN "HAZY"
    ELSE IF raw0 = S_light_rain THEN "LIGHTLY_RAINY"
    ELSE IF raw0 = S_moderate_rain THEN "RAINY"
    ELSE IF raw0 = S_heavy_rain \/ raw0 = S_storm_rain THEN "HEAVILY_RAINY"
    ELSE IF raw0 = S_fog THEN "FOGGY"
    ELSE IF raw0 = S_light_snow THEN "LIGHTLY_SNOWY"
    ELSE IF raw0 = S_moderate_snow THEN "SNOWY"
    ELSE IF raw0 = S_heavy_snow \/ raw0 = S_storm_snow THEN "HEAVILY_SNOWY"
    ELSE IF raw0 = S_dust THEN "DUSTY"
    ELSE IF raw0 = S_sand THEN "SANDY"
    ELSE IF raw0 = S_wind THEN "WINDY"
    ELSE "UNKNOWN"

caiyun_get_day(raw0) ==
    LET raw == Lower(raw0)
    IN  IF Contains(raw, S_clear) THEN "CLEAR"
        ELSE IF Contains(raw, S_cloudy) THEN "CLOUDY"
        ELSE IF Contains(raw, S_haze) THEN "HAZY"
        ELSE IF raw = S_light_rain THEN "LIGHTLY_RAINY"
        ELSE IF raw = S_moderate_rain THEN "RAINY"
        ELSE IF raw = S_heavy_rain \/ raw = S_storm_rain THEN "HEAVILY_RAINY"
        ELSE IF raw = S_fog THEN "FOGGY"
        ELSE IF raw = S_light_snow THEN "LIGHTLY_SNOWY"
        ELSE IF raw = S_moderate_snow THEN "SNOWY"
        ELSE IF raw = S_heavy_snow \/ raw = S_storm_snow THEN "HEAVILY_SNOWY"
        ELSE IF raw = S_dust THEN "DUSTY"
        ELSE IF raw = S_sand THEN "SANDY"
        ELSE IF raw = S_wind THEN "WINDY"
        ELSE "UNKNOWN"

(***************************************************************************)
(* CaiYunWeatherProvider.invalidate and its nested parse / pick.           *)
(***************************************************************************)
\* A plausible slip: "avg" is looked up before "value"
pick_avg_first(unit) ==
    IF "avg" \in DOMAIN unit THEN Ok(unit.avg)
    ELSE IF "value" \in DOMAIN unit THEN Ok(unit.value)
    ELSE Raise("ValueError")

pick(unit) ==
    IF "value" \in DOMAIN unit THEN Ok(unit.value)
    ELSE IF "avg" \in DOMAIN unit THEN Ok(unit.avg)
    ELSE Raise("ValueError")

\* pick(source[name][i]): the subscripts raise KeyError / IndexError
metric(source, name, i) ==
    IF name \notin DOMAIN source THEN Raise("KeyError")
    ELSE IF i > Len(source[name]) THEN Raise("IndexError")
    ELSE pick(source[name][i])

\* lines 239-245: the time of entry i
entry_time(precipitation) ==
    IF "datetime" \in DOMAIN precipitation
    THEN Ok(fromisoformat_timetuple(precipitation.datetime))
    ELSE IF "date" \in DOMAIN precipitation
    THEN Ok(fromisoformat_timetuple(precipitation.date))
    ELSE Raise("ValueError")

\* lines 239-256: one iteration of the loop of parse, for index i (1-based)
parse_entry(source, i, effect) ==
    LET time == entry_time(source.precipitation[i])
        temperature == metric(source, "temperature", i)
        humidity == metric(source, "humidity", i)
        sky_con == metric(source, "skycon", i)
        pressure == metric(source, "pressure", i)
    IN  IF ~time.ok THEN time
        ELSE IF ~temperature.ok THEN temperature
        ELSE IF ~humidity.ok THEN humidity
        ELSE IF ~sky_con.ok THEN sky_con
        ELSE IF ~pressure.ok THEN pressure
        ELSE Ok(Weather(time.value, effect, caiyun_get_day(sky_con.value),
                        temperature.value, humidity.value, pressure.value, -1))

\* lines 238-256: the loop from index i on, appending to target_set
RECURSIVE parse_from(_, _, _, _)
parse_from(target_set, source, effect, i) ==
    IF i > Len(source.precipitation) THEN Ok(target_set)
    ELSE LET w == parse_entry(source, i, effect)
         IN  IF ~w.ok THEN w
             ELSE parse_from(Append(target_set, w.value), source, effect, i + 1)

\* lines 229-256: parse(target_set, source, effect)
parse(target_set, source, effect) ==
    IF "precipitation" \notin DOMAIN source THEN Raise("KeyError")
    ELSE parse_from(target_set, source, effect, 1)

RealtimeKeys == { "temperature", "skycon", "humidity", "pressure", "life_index" }

\* lines 217-225: the CURRENT record, built at clock value t
current_weather(result_realtime, t) ==
    IF ~(RealtimeKeys \subseteq DOMAIN result_realtime) THEN Raise("KeyError")
    ELSE Ok(Weather(localtime(t), "CURRENT",
                    caiyun_get_day(result_realtime.skycon),
                    result_realtime.temperature,
                    result_realtime.humidity,
                    TrueDiv(result_realtime.pressure, 100),
                    PyInt(result_realtime.life_index.ultraviolet.index)))

\* A plausible slip: the two series are concatenated the other way round
concat_daily_first(current, hourly_weather, daily_weather) ==
    <<current>> \o daily_weather \o hourly_weather

\* line 261: the returned list
concat_result(current, hourly_weather, daily_weather) ==
    <<current>> \o hourly_weather \o daily_weather

\* What one invalidate() call did: its result or the error it raised, the
\* number of requests.get calls it made, and whether json.loads was reached
Outcome(r, requests, parsed) ==
    [ ok |-> r.ok,
      value |-> IF r.ok THEN r.value ELSE <<>>,
      error |-> IF r.ok THEN "" ELSE r.error,
      requests |-> requests,
      parsed |-> parsed ]

\* lines 213-261: everything after the status check, at clock value t
parse_response(text, t) ==
    LET api_callback == text
    IN  IF "result" \notin DOMAIN api_callback THEN Raise("KeyError")
        ELSE IF "realtime" \notin DOMAIN api_callback.result THEN Raise("KeyError")
        ELSE IF "hourly" \notin DOMAIN api_callback.result THEN Raise("KeyError")
        ELSE IF "daily" \notin DOMAIN api_callback.result THEN Raise("KeyError")
        ELSE
        LET current == current_weather(api_callback.result.realtime, t)
            hourly_weather == parse(<<>>, api_callback.result.hourly, "HOURLY")
            daily_weather == parse(<<>>, api_callback.result.daily, "DAILY")
        IN  IF ~current.ok THEN current
            ELSE IF ~hourly_weather.ok THEN hourly_weather
            ELSE IF ~daily_weather.ok THEN daily_weather
            ELSE Ok(concat_result(current.value, hourly_weather.value,
                                  daily_weather.value))

\* A plausible slip: the status of the response is not looked at
invalidate_unchecked(response, t) ==
    Outcome(parse_response(response.text, t), 1, TRUE)

\* lines 208-261: CaiYunWeatherProvider.invalidate, the response being what
\* requests.get returned and t the clock value when it is parsed
invalidate(response, t) ==
    IF ~response.ok
    THEN Outcome(Raise("IOError"), 1, FALSE)
    ELSE Outcome(parse_response(response.text, t), 1, TRUE)

(***************************************************************************)
(* Upstream responses drawn as inputs.                                     *)
(***************************************************************************)
\* one entry of a metric array, in each shape the API (or a fault) gives it
Unit(shape, v, w) ==
    CASE shape = "value" -> [value |-> v]
      [] shape = "avg" -> [avg |-> v]
      [] shape = "both" -> [value |-> v, avg |-> w]
      [] shape = "range" -> [max |-> v, min |-> w, avg |-> v]

SeriesSkycons ==
    << <<"L","I","G","H","T","_","R","A","I","N">>,
       <<"P","A","R","T","L","Y","_","C","L","O","U","D","Y","_","D","A","Y">>,
       <<"t","h","u","n","d","e","r","s","n","o","w">>,
       <<"F","O","G">> >>

SkyAt(i) == SeriesSkycons[((i - 1) % Len(SeriesSkycons)) + 1]

\* a series of n entries: kind "hourly" carries datetime, "daily" carries date
Series(kind, n, shape) ==
    [ precipitation |->
          [i \in 1..n |->
              IF kind = "hourly"
              THEN [datetime |-> [day |-> 1, hour |-> i], value |-> 0]
              ELSE [date |-> [day |-> i], avg |-> 0]],
      temperature |-> [i \in 1..n |-> Unit(shape, 10 + i, 30 + i)],
      humidity |-> [i \in 1..n |-> Unit(shape, 50 + i, 70 + i)],
      skycon |-> [i \in 1..n |-> Unit(shape, SkyAt(i), S_wind)],
      pressure |-> [i \in 1..n |->
                       Unit(shape, Num(101325 + i), Num(99000 + i))] ]

Metrics == { "temperature", "humidity", "skycon", "pressure" }

\* faults of a series
BlankAt(series, name, i) ==
    [series EXCEPT ![name][i] = [max |-> 1, min |-> 0]]

DropLast(series, name) ==
    [series EXCEPT ![name] = SubSeq(series[name], 1, Len(series[name]) - 1)]

NoTimeAt(series, i) ==
    [series EXCEPT !["precipitation"][i] = [value |-> 0]]

Realtime(skycon, pressure, uv) ==
    [ temperature |-> 22, skycon |-> skycon, humidity |-> 55,
      pressure |-> pressure,
      life_index |-> [ultraviolet |-> [index |-> uv, desc |-> "x"]] ]

Response(ok, realtime, hourly, daily) ==
    [ ok |-> ok,
      text |-> [ status |-> "ok",
                 result |-> [ realtime |-> realtime, hourly |-> hourly,
                              daily |-> daily ] ] ]

ErrorBody == [ok |-> FALSE, text |-> [status |-> "failed"]]

UvIndexes == { Num(0), Frac(9, 2), Num(10), Num(11) }
Pressures == { Num(101325), Num(98760) }

BaseRealtime == Realtime(S_cloudy, Num(101325), Num(3))
BaseHourly == Series("hourly", MaxSteps, "value")
BaseDaily == Series("daily", MaxSteps, "range")

\* well-formed payloads: every sky-condition code, every UV index and
\* pressure, every pair of series lengths and every shape of the entries
GoodResponses ==
    { Response(TRUE, Realtime(s, Num(101325), Num(3)), BaseHourly, BaseDaily) :
          s \in RawSkycons }
    \cup
    { Response(TRUE, Realtime(S_cloudy, p, u),
               Series("hourly", nh, sh), Series("daily", nd, sd)) :
          p \in Pressures, u \in UvIndexes,
          nh \in 0..MaxSteps, nd \in 0..MaxSteps,
          sh \in { "value", "both" }, sd \in { "avg", "range" } }

\* payloads with one fault: a metric with neither key, a short array, an
\* entry without a time, a missing section
FaultyResponses ==
    { Response(TRUE, BaseRealtime, BlankAt(BaseHourly, m, i), BaseDaily) :
          m \in Metrics, i \in 1..MaxSteps }
    \cup
    { Response(TRUE, BaseRealtime, BaseHourly, BlankAt(BaseDaily, m, i)) :
          m \in Metrics, i \in 1..MaxSteps }
    \cup
    { Response(TRUE, BaseRealtime, DropLast(BaseHourly, m), BaseDaily) :
          m \in Metrics }
    \cup
    { Response(TRUE, BaseRealtime, BaseHourly, NoTimeAt(BaseDaily, i)) :
          i \in 1..MaxSteps }
    \cup
    { [ok |-> TRUE, text |-> [status |-> "failed"]] }

\* responses whose status is not OK, with an error body or a full payload
NotOkResponses ==
    { ErrorBody, Response(FALSE, BaseRealtime, BaseHourly, BaseDaily) }

ParseResponses == GoodResponses \cup FaultyResponses \cup NotOkResponses

\* the responses drawn by the cache layer's specification
CacheResponses ==
    { Response(TRUE, BaseRealtime, BaseHourly, BaseDaily),
      Response(TRUE, Realtime(S_fog, Num(98760), Num(11)),
               Series("hourly", 1, "both"), Series("daily", 1, "avg")),
      Response(TRUE, BaseRealtime, BlankAt(BaseHourly, "pressure", MaxSteps),
               BaseDaily),
      Response(TRUE, BaseRealtime, BaseHourly,
               BlankAt(BaseDaily, "temperature", 1)) }
    \cup NotOkResponses

(***************************************************************************)
(* CachedWeatherProvider (src/weather.py, lines 103-137).                  *)
(***************************************************************************)
NoOutcome ==
    [ok |-> FALSE, value |-> <<>>, error |-> "", requests |-> 0, parsed |-> FALSE]

NoHist == [ok |-> None, failed_since |-> FALSE]

\* no call has completed yet
NoCall ==
    [ op |-> "none", at |-> 0, pre_update_time |-> None, pre_cache |-> None,
      pre_hist |-> NoHist, prev_error |-> "", response |-> None,
      invalidations |-> 0, outcome |-> NoOutcome, raised |-> "",
      returned |-> None ]

\* A plausible slip: the comparison of line 132 is written the wrong way round
cache_is_fresh_reversed(ut, t, ttl) ==
    ~IsNone(ut) /\ t - Get(ut) > ttl

\* A plausible slip: <= for <, so a call exactly ttl seconds later is served
\* from the cache
cache_is_fresh_inclusive(ut, t, ttl) ==
    ~IsNone(ut) /\ t - Get(ut) <= ttl

\* lines 131-132: the test that serves the call from the cache
cache_is_fresh(ut, t, ttl) ==
    ~IsNone(ut) /\ t - Get(ut) < ttl

\* invalidate() on each response the cache layer draws, at each clock value
InvalidateAt ==
    [response \in CacheResponses, t \in 0..MaxTime |-> invalidate(response, t)]

\* lines 117-120: the state after construction
Init ==
    /\ now = 0
    /\ cache_invalidation \in 0..MaxTTL
    /\ update_time = None
    /\ cache = None
    /\ call = NoCall
    /\ hist = NoHist

\* the wall clock advances between calls
Tick ==
    /\ now < MaxTime
    /\ now' = now + 1
    /\ UNCHANGED <<cache_invalidation, update_time, cache, call, hist>>

\* lines 130-137: one whole get_weather() call.  The clock is read at line
\* 132 (t1) and again at line 134 (t2 = t1 + d1); invalidate() returns at
\* t3 = t2 + d2.
GetWeather ==
    LET t1 == now
        base == [ NoCall EXCEPT !.op = "get_weather", !.at = t1,
                                !.pre_update_time = update_time,
                                !.pre_cache = cache,
                                !.pre_hist = hist,
                                !.prev_error = call.raised ]
    IN  \/ /\ cache_is_fresh(update_time, t1, cache_invalidation)
           /\ call' = [base EXCEPT !.returned = cache]
           /\ UNCHANGED <<now, cache_invalidation, update_time, cache, hist>>
        \/ /\ ~cache_is_fresh(update_time, t1, cache_invalidation)
           /\ \E response \in CacheResponses, d1 \in 0..MaxDelay, d2 \in 0..MaxDelay :
                /\ t1 + d1 + d2 <= MaxTime
                /\ LET t2 == t1 + d1
                       t3 == t2 + d2
                       new_data == InvalidateAt[response, t3]
                          done == [base EXCEPT !.response = Some(response),
                                            !.invalidations = 1,
                                            !.outcome = new_data]
                   IN  /\ now' = t3
                       /\ update_time' = Some(t2)
                       /\ IF new_data.ok
                          THEN /\ cache' = Some(new_data.value)
                               /\ call' = [done EXCEPT !.returned = Some(new_data.value)]
                               /\ hist' = [ ok |-> Some([ at |-> t1, stamp |-> t2,
                                                          requests |-> new_data.requests,
                                                          returned |-> new_data.value ]),
                                            failed_since |-> FALSE ]
                          ELSE /\ cache' = cache
                               /\ call' = [done EXCEPT !.raised = new_data.error]
                               /\ hist' = [hist EXCEPT !.failed_since = TRUE]
                       /\ UNCHANGED cache_invalidation

Next == Tick \/ GetWeather

Spec == Init /\ [][Next]_vars

(***************************************************************************)
(* invalidate() as a function of the response: every response of           *)
(* ParseResponses is drawn and parsed once, at any clock value.            *)
(***************************************************************************)
InitParse ==
    /\ now \in 0..MaxTime
    /\ cache_invalidation \in 0..MaxTTL
    /\ update_time = None
    /\ cache = None
    /\ \E response \in ParseResponses :
           call = [NoCall EXCEPT !.response = Some(response)]
    /\ hist = NoHist

Invalidate ==
    /\ call.op = "none"
    /\ call' = [ call EXCEPT !.op = "invalidate", !.at = now,
                             !.invalidations = 1,
                             !.outcome = invalidate(Get(call.response), now) ]
    /\ UNCHANGED <<now, cache_invalidation, update_time, cache, hist>>

NextParse == Invalidate

SpecParse == InitParse /\ [][NextParse]_vars

(***************************************************************************)
(* Properties of the cache layer (checked under Spec).                     *)
(***************************************************************************)
\* the last completed call was a get_weather() call
IsGetWeather == call.op = "get_weather"

\* the last completed get_weather() call called invalidate()
Refreshed == IsGetWeather /\ call.invalidations = 1

\* the last get_weather() call was made less than cache_invalidation seconds
\* after a get_weather() call that refreshed successfully, no refresh having
\* failed in between
InFreshWindow ==
    /\ IsGetWeather
    /\ ~IsNone(call.pre_hist.ok)
    /\ ~call.pre_hist.failed_since
    /\ call.at - Get(call.pre_hist.ok).at < cache_invalidation

\* C1: a get_weather() call made less than T seconds after a call whose
\* refresh succeeded, with no failed refresh in between, returns normally the
\* very result of that call, calls invalidate() zero times and makes no
\* upstream request; the successful call itself made exactly one request, so
\* the window sees one upstream fetch in all.
C1_FreshWindowServedFromCache ==
    InFreshWindow =>
        /\ call.raised = ""
        /\ call.returned = Some(Get(call.pre_hist.ok).returned)
        /\ call.invalidations = 0
        /\ call.outcome.requests = 0
        /\ Get(call.pre_hist.ok).requests = 1

\* C1 witness: a call strictly later than the successful one, inside its
\* window, was served the cached result
C1_Witness ==
    /\ InFreshWindow
    /\ call.at > Get(call.pre_hist.ok).stamp
    /\ call.invalidations = 0
    /\ call.returned = Some(Get(call.pre_hist.ok).returned)

\* the last get_weather() call was the first one ever, or was made T seconds
\* or more after the recorded last fetch time
StaleOrFirst ==
    /\ IsGetWeather
    /\ \/ IsNone(call.pre_update_time)
       \/ call.at - Get(call.pre_update_time) >= cache_invalidation

\* C2: a get_weather() call made T seconds or more after the recorded last
\* fetch time (exactly T included), and the first call on a provider, calls
\* invalidate() exactly once (one upstream request); when that succeeds its
\* result is stored as the cache and is what the call returns.
C2_StaleOrFirstCallRefreshesOnce ==
    StaleOrFirst =>
        /\ call.invalidations = 1
        /\ call.outcome.requests = 1
        /\ call.outcome.ok =>
               /\ call.raised = ""
               /\ call.returned = Some(call.outcome.value)
               /\ cache = Some(call.outcome.value)

\* C2 witness: a call made exactly T > 0 seconds after the recorded fetch
\* time refreshed and returned the new result
C2_Witness ==
    /\ IsGetWeather
    /\ cache_invalidation > 0
    /\ ~IsNone(call.pre_update_time)
    /\ call.at - Get(call.pre_update_time) = cache_invalidation
    /\ call.invalidations = 1
    /\ call.outcome.ok
    /\ call.returned = Some(call.outcome.value)
    /\ cache = call.returned

\* C3: when invalidate() fails inside get_weather(), the failure reaches the
\* caller and neither the stored timestamp nor the stored result has changed.
C3_FailedRefreshLeavesCacheState ==
    (Refreshed /\ ~call.outcome.ok) =>
        /\ call.raised = call.outcome.error
        /\ update_time = call.pre_update_time
        /\ cache = call.pre_cache

\* C4: the get_weather() call that follows one whose refresh failed calls
\* invalidate() again, however soon it is made.
C4_RetryAfterFailedRefresh ==
    (IsGetWeather /\ call.prev_error # "") => call.invalidations = 1

(***************************************************************************)
(* Properties of the fetch-and-parse routine.                              *)
(***************************************************************************)
\* the payload of the response the last call drew
Payload == Get(call.response).text.result

\* the last completed call was invalidate() alone, and it succeeded
Parsed == call.op = "invalidate" /\ call.outcome.ok

\* number of entries of a series
Steps(series) == Len(series.precipitation)

\* the record of the returned sequence built from entry i of a series
HourlyRecord(i) == call.outcome.value[1 + i]
DailyRecord(i) == call.outcome.value[1 + Steps(Payload.hourly) + i]

\* C5: a sequence returned by invalidate() is one CURRENT record, then one
\* HOURLY record per hourly entry in payload index order, then one DAILY
\* record per daily entry in payload index order; no HOURLY record follows a
\* DAILY one and no record has the effect ANY.
C5_ResultOrderedByEffect ==
    Parsed =>
        LET v == call.outcome.value
            nh == Steps(Payload.hourly)
            nd == Steps(Payload.daily)
        IN  /\ Len(v) = 1 + nh + nd
            /\ v[1].effect = "CURRENT"
            /\ \A i \in 1..nh :
                   /\ HourlyRecord(i).effect = "HOURLY"
                   /\ HourlyRecord(i).time =
                          <<Payload.hourly.precipitation[i].datetime.day,
                            Payload.hourly.precipitation[i].datetime.hour, 0>>
            /\ \A i \in 1..nd :
                   /\ DailyRecord(i).effect = "DAILY"
                   /\ DailyRecord(i).time =
                          <<Payload.daily.precipitation[i].date.day, 0, 0>>
            /\ \A j \in 1..Len(v), k \in 1..Len(v) :
                   j < k => ~(v[j].effect = "DAILY" /\ v[k].effect = "HOURLY")
            /\ \A k \in 1..Len(v) : v[k].effect # "ANY"

\* C5 witness: a returned sequence with several hourly and several daily
\* records
C5_Witness ==
    /\ Parsed
    /\ Steps(Payload.hourly) >= 2
    /\ Steps(Payload.daily) >= 2
    /\ HourlyRecord(2).effect = "HOURLY"
    /\ DailyRecord(1).effect = "DAILY"

\* C6: in a sequence returned by invalidate(), every HOURLY and DAILY record
\* has uv_index -1 and every CURRENT record has uv_index in 0..10.
C6_UvIndexRanges ==
    Parsed =>
        \A k \in 1..Len(call.outcome.value) :
            LET w == call.outcome.value[k]
            IN  /\ w.effect \in { "HOURLY", "DAILY" } => w.uv_index = -1
                /\ w.effect = "CURRENT" => w.uv_index \in 0..10

\* the exact codes of the claimed classification and the Day of each
C7_ExactCodes ==
    { <<S_light_rain, "LIGHTLY_RAINY">>, <<S_moderate_rain, "RAINY">>,
      <<S_heavy_rain, "HEAVILY_RAINY">>, <<S_storm_rain, "HEAVILY_RAINY">>,
      <<S_fog, "FOGGY">>, <<S_light_snow, "LIGHTLY_SNOWY">>,
      <<S_moderate_snow, "SNOWY">>, <<S_heavy_snow, "HEAVILY_SNOWY">>,
      <<S_storm_snow, "HEAVILY_SNOWY">>, <<S_dust, "DUSTY">>,
      <<S_sand, "SANDY">>, <<S_wind, "WINDY">> }

\* the claimed classification of a raw code
C7_Claimed(raw0) ==
    LET code == Lower(raw0)
        exact == { e \in C7_ExactCodes : e[1] = code }
    IN  CASE Contains(code, S_clear) -> "CLEAR"
          [] ~Contains(code, S_clear) /\ Contains(code, S_cloudy) -> "CLOUDY"
          [] ~Contains(code, S_clear) /\ ~Contains(code, S_cloudy)
             /\ Contains(code, S_haze) -> "HAZY"
          [] OTHER -> IF exact = {} THEN "UNKNOWN"
                      ELSE (CHOOSE e \in exact : TRUE)[2]

\* the raw code of entry i of a series: its "value", else its "avg"
C7_SkyconOf(series, i) ==
    IF "value" \in DOMAIN series.skycon[i]
    THEN series.skycon[i].value ELSE series.skycon[i].avg

\* C7: classification is total and follows the claimed table: every
\* well-formed payload is parsed without error, whatever codes it carries, and
\* every record's day is the claimed class of the code it was built from.
C7_ClassificationTable ==
    /\ (call.op = "invalidate" /\ Get(call.response) \in GoodResponses)
           => call.outcome.ok
    /\ Parsed =>
           /\ call.outcome.value[1].day = C7_Claimed(Payload.realtime.skycon)
           /\ \A i \in 1..Steps(Payload.hourly) :
                  HourlyRecord(i).day = C7_Claimed(C7_SkyconOf(Payload.hourly, i))
           /\ \A i \in 1..Steps(Payload.daily) :
                  DailyRecord(i).day = C7_Claimed(C7_SkyconOf(Payload.daily, i))
           /\ \A k \in 1..Len(call.outcome.value) :
                  call.outcome.value[k].day \in Day

\* C7 witness: the unrecognised code "thundersnow" was classified UNKNOWN in
\* a payload whose other codes were recognised in upper case
C7_Witness ==
    /\ Parsed
    /\ Payload.realtime.skycon = <<"t","h","u","n","d","e","r","s","n","o","w">>
    /\ call.outcome.value[1].day = "UNKNOWN"
    /\ Steps(Payload.hourly) >= 2
    /\ HourlyRecord(1).day = "LIGHTLY_RAINY"
    /\ HourlyRecord(2).day = "CLOUDY"

\* a metric entry carries "value" or "avg"
C8_HasMetric(unit) == "value" \in DOMAIN unit \/ "avg" \in DOMAIN unit

\* the claimed metric of an entry that carries one
C8_Claimed(unit) == IF "value" \in DOMAIN unit THEN unit.value ELSE unit.avg

\* every entry of every metric array of a series carries "value" or "avg"
C8_Complete(series) ==
    \A m \in Metrics : \A i \in 1..Len(series[m]) : C8_HasMetric(series[m][i])

\* record w carries the claimed metrics of entry i of a series
C8_Matches(w, series, i) ==
    /\ w.temperature = C8_Claimed(series.temperature[i])
    /\ w.humidity = C8_Claimed(series.humidity[i])
    /\ w.pressure = C8_Claimed(series.pressure[i])
    /\ w.day = C7_Claimed(C8_Claimed(series.skycon[i]))

\* the last get_weather() call refreshed from an OK response with a payload
C8_RefreshedFromPayload ==
    /\ Refreshed
    /\ Get(call.response).ok
    /\ "result" \in DOMAIN Get(call.response).text

\* C8: each metric of each hourly/daily record is the entry's "value" when
\* present, else its "avg"; when some entry has neither, get_weather() raises
\* the error to its caller, returns nothing and stores nothing.
C8_MetricValueElseAvgElseError ==
    C8_RefreshedFromPayload =>
        IF C8_Complete(Payload.hourly) /\ C8_Complete(Payload.daily)
        THEN call.outcome.ok =>
                 /\ call.raised = ""
                 /\ call.returned = Some(call.outcome.value)
                 /\ Len(call.outcome.value) =
                        1 + Steps(Payload.hourly) + Steps(Payload.daily)
                 /\ \A i \in 1..Steps(Payload.hourly) :
                        C8_Matches(HourlyRecord(i), Payload.hourly, i)
                 /\ \A i \in 1..Steps(Payload.daily) :
                        C8_Matches(DailyRecord(i), Payload.daily, i)
        ELSE /\ call.raised = "ValueError"
             /\ IsNone(call.returned)
             /\ cache = call.pre_cache

\* C8 witness: a refresh met an entry with neither key after entries that had
\* one, and get_weather() raised
C8_Witness ==
    /\ C8_RefreshedFromPayload
    /\ ~C8_Complete(Payload.hourly)
    /\ C8_HasMetric(Payload.hourly.pressure[1])
    /\ call.raised = "ValueError"
    /\ IsNone(call.returned)

\* C9: every record of a returned sequence stores the payload's pressure
\* divided by 100 (Pa to hPa), whatever its effect.
C9_PressureInHectopascal ==
    Parsed =>
        /\ call.outcome.value[1].pressure = TrueDiv(Payload.realtime.pressure, 100)
        /\ \A i \in 1..Steps(Payload.hourly) :
               HourlyRecord(i).pressure =
                   TrueDiv(C8_Claimed(Payload.hourly.pressure[i]), 100)
        /\ \A i \in 1..Steps(Payload.daily) :
               DailyRecord(i).pressure =
                   TrueDiv(C8_Claimed(Payload.daily.pressure[i]), 100)

\* C10: when the response is not OK, invalidate() raises before json.loads
\* is reached, having made one request and no more, and get_weather() raises
\* that error to its caller instead of returning a result.
C10_NotOkFailsBeforeParsing ==
    (Refreshed /\ ~Get(call.response).ok) =>
        /\ ~call.outcome.parsed
        /\ call.outcome.requests = 1
        /\ call.raised = "IOError"
        /\ IsNone(call.returned)
        /\ cache = call.pre_cache

\* C10 witness: a not-OK response that carried a complete payload made
\* get_weather() raise
C10_Witness ==
    /\ Refreshed
    /\ ~Get(call.response).ok
    /\ "result" \in DOMAIN Get(call.response).text
    /\ call.raised = "IOError"

\* C11: every value get_weather() returns normally is the return value of an
\* invalidate() call that completed successfully: it is never the unset cache
\* (None), and the stored timestamp is never newer than the fetch that
\* produced the stored result.
C11_ReturnsOnlySuccessfulFetches ==
    (IsGetWeather /\ call.raised = "") =>
        /\ ~IsNone(call.returned)
        /\ ~IsNone(hist.ok)
        /\ call.returned = Some(Get(hist.ok).returned)
        /\ update_time = Some(Get(hist.ok).stamp)

====
